---- MODULE Spec2Model ----
(***************************************************************************)
(* Model of the hio package of drakelthedragon/bazaar: the graceful serve  *)
(* lifecycle (Serve), the Router's middleware lists (Group, Use, wrap,     *)
(* handle) and the TrailingSlashRedirector middleware.                     *)
(*                                                                         *)
(* Three independent state machines share the module.  Each specification  *)
(* runs one of them and keeps the variables of the others at their initial *)
(* values:                                                                 *)
(*   Spec / FairSpec   the Serve lifecycle (accept task, shutdown task)     *)
(*   RouterSpec        a tree of routers, their middleware slices, routes   *)
(*   RedirectSpec      one request through TrailingSlashRedirector          *)
(***************************************************************************)
EXTENDS Integers, Sequences, FiniteSets, TLC

(***************************************************************************)
(* Bounds of the model.                                                    *)
(***************************************************************************)
\* Connections that may be in flight at the same time.
MaxConns == 2
\* Middlewares handed to Use and Group over the whole run.
MaxMws == 5
\* Middlewares handed to one call of Use or Group.
MaxArgs == 2
\* Routers: the root and those Group returns.
MaxRouters == 3
\* Routes registered with handle.
MaxRoutes == 1
\* Length of a request path.
MaxPathLen == 4
\* Options applied by one call of Serve (nested lists counted as one).
MaxOpts == 3
\* Units of a Handler chain.
MaxUnits == 4
\* Responder methods called.
MaxCalls == 2
\* Wrappers around the response writer handed to MaxBytesReader.
MaxLayers == 3
\* Values the callers of the Repository hold.
MaxObjs == 3

(***************************************************************************)
(* State of one call of Serve.                                             *)
(***************************************************************************)
VARIABLES
    pcServe,        \* "call": Serve not yet called; "wait": in eg.Wait; "done": returned
    result,         \* the error Serve returned ("nil" for none), "none" before it returns
    ctxDone,        \* the caller's ctx has been canceled
    ctxDoneAtCall,  \* ctx was already canceled when Serve was called
    sigDelivered,   \* SIGINT or SIGTERM reached signal.NotifyContext
    bindOK,         \* environment: net.Listen on cfg.Addr() succeeds
    egCancel,       \* the errgroup canceled its context (first error, or Wait returned)
    egErr,          \* the errgroup's recorded error (errOnce), "nil" when none
    reported,       \* the non-nil errors the two tasks returned, in order: <<task, err>>
    acceptPc,       \* accept task: idle, start, listen, track, accepting, done
    acceptErr,      \* what open(srv) returned, "none" while it runs
    shutPc,         \* shutdown task: idle, wait, closeListeners, poll, done
    shutErr,        \* what srv.Shutdown returned, "none" before
    inShutdown,     \* http.Server.inShutdown
    listener,       \* none, bound (net.Listen returned), tracked (accepting), closed
    inflight,       \* active (non-idle) connections
    everInflight,   \* some connection has been accepted
    shutdownCtx,    \* none, live, Canceled, DeadlineExceeded
    shutdownCtxAtCall \* shutdownCtx as it was when handed to srv.Shutdown

serveVars == <<pcServe, result, ctxDone, ctxDoneAtCall, sigDelivered, bindOK,
               egCancel, egErr, reported, acceptPc, acceptErr, shutPc, shutErr,
               inShutdown, listener, inflight, everInflight, shutdownCtx,
               shutdownCtxAtCall>>

(***************************************************************************)
(* State of a tree of Routers.  Middleware lists are Go slices: a backing  *)
(* array on the heap, a length and a capacity, so that two routers sharing *)
(* a backing array is a state the model can be in.                         *)
(***************************************************************************)
VARIABLES
    heap,       \* backing arrays of the middleware slices; 0 is an unset element
    routers,    \* the Routers: [prefix, mws: [arr, len, cap], parent]
    given,      \* given[r]: how many middlewares router r was handed by Use or Group
    routes,     \* registrations in the shared ServeMux: [by, method, path, list, h]
    served,     \* the route the last step served a request on: {} or {route}
    trace       \* what that request observed: <<"pre", m>>, <<"handler", 0>>, <<"post", m>>

routerVars == <<heap, routers, given, routes, served, trace>>

(***************************************************************************)
(* One request through the handler TrailingSlashRedirector(next) returns.  *)
(***************************************************************************)
VARIABLES
    reqPath,    \* r.URL.Path
    reqQuery,   \* r.URL.RawQuery
    priorCT,    \* a Content-Type header was set on w before the middleware ran
    tsrPc,      \* "pending", then "served" once the handler has returned
    respCT,     \* w.Header()["Content-Type"]: "unset", "set", or "nil" (cleared)
    respStatus, \* the status the middleware wrote, 0 when it wrote none
    respURL,    \* the url the middleware handed to http.Redirect
    respBody,   \* the middleware wrote body bytes
    nextCalls   \* how many times next.ServeHTTP(w, r) was called

tsrVars == <<reqPath, reqQuery, priorCT, tsrPc, respCT, respStatus, respURL, respBody,
             nextCalls>>

(***************************************************************************)
(* The ServeConfig that Serve builds from its options.                     *)
(***************************************************************************)
VARIABLES
    cfg,        \* the ServeConfig (var cfg ServeConfig, then the options applied)
    applied,    \* the options applied so far, in order
    cfgPc       \* "apply": in the option loop; "valid" / "rejected": Validate returned

cfgVars == <<cfg, applied, cfgPc>>

(***************************************************************************)
(* A chain of Handlers served by Handler.ServeHTTP.                        *)
(***************************************************************************)
VARIABLES
    units,      \* units[i]: the unit that unit i returns, 0 for nil
    origin,     \* the sink and the request of the outermost ServeHTTP call
    pending,    \* the ServeHTTP call about to run (at most one)
    calls       \* the unit invocations so far, each with its sink and request

chainVars == <<units, origin, pending, calls>>

(***************************************************************************)
(* A Responder and the handler it returned.                                *)
(***************************************************************************)
VARIABLES
    rsIn,       \* the last Responder method called, with its arguments
    rsPc,       \* "idle", "built" (handler returned), "served" (handler ran)
    rsHandler,  \* the handler the method returned
    rsCalls,    \* the number of Responder methods called
    errLog,     \* the errors the Responder's err callback was invoked with
    cbWrites,   \* whether the handler returned by the callback writes a response
    writes      \* what was written to the response while the handler ran

respVars == <<rsIn, rsPc, rsHandler, rsCalls, errLog, cbWrites, writes>>

(***************************************************************************)
(* MaxBytesReader and the response writer it is handed.                    *)
(***************************************************************************)
VARIABLES
    mbrW,       \* the wrappers around the server's response writer, outermost first
    mbrMax,     \* the byte limit
    mbrPc,      \* "call", "limited" (reader returned), "exceeded" (body over the limit)
    mbrTarget,  \* depth of the writer handed to http.MaxBytesReader, 0 before
    connClose   \* the server has been told to close the connection

mbrVars == <<mbrW, mbrMax, mbrPc, mbrTarget, connClose>>

(***************************************************************************)
(* The in-memory Repository and the values of its callers.                 *)
(***************************************************************************)
VARIABLES
    objs,       \* the values callers hold, by pointer (1..Len(objs); 0 is nil)
    data,       \* Repository.data: key to pointer
    memRes      \* the last call of Save or Load: operation, pointer, error

memVars == <<objs, data, memRes>>

(***************************************************************************)
(* Callers of the Repository running at the same time.                     *)
(***************************************************************************)
VARIABLES
    mu,         \* Repository.mu: the writer holding it (0: none), the readers holding it
    callOp,     \* callOp[t]: the method caller t calls, on its own value (pointer t)
    callPc,     \* callPc[t]: "start", "locked", "store" / "copy", "unlock", "done"
    callLocal,  \* callLocal[t]: key of Save, v of Load, once computed
    callErr     \* callErr[t]: the error the call returns, "none" before

concVars == <<mu, callOp, callPc, callLocal, callErr>>

helperVars == <<chainVars, respVars, mbrVars, memVars, concVars>>

vars == <<serveVars, routerVars, tsrVars, cfgVars, helperVars>>

\* What the actions of one state machine leave alone.
otherThanServe == <<routerVars, tsrVars, cfgVars, helperVars>>
otherThanRouter == <<serveVars, tsrVars, cfgVars, helperVars>>
otherThanRedirect == <<serveVars, routerVars, cfgVars, helperVars>>
otherThanConfig == <<routerVars, tsrVars, helperVars>>
otherThanChain == <<serveVars, routerVars, tsrVars, cfgVars, respVars, mbrVars, memVars, concVars>>
otherThanResponder == <<serveVars, routerVars, tsrVars, cfgVars, chainVars, mbrVars, memVars, concVars>>
otherThanMaxBytes == <<serveVars, routerVars, tsrVars, cfgVars, chainVars, respVars, memVars, concVars>>
otherThanRepository ==
    <<serveVars, routerVars, tsrVars, cfgVars, chainVars, respVars, mbrVars, concVars>>
otherThanCallers == <<serveVars, routerVars, tsrVars, cfgVars, chainVars, respVars, mbrVars>>

Errors == {"nil", "ErrServerClosed", "BindErr", "AcceptErr", "Canceled", "DeadlineExceeded"}

\* signal.NotifyContext(ctx, SIGINT, SIGTERM): done when the parent is done
\* or one of the signals has been delivered.
NotifyCtxDone == ctxDone \/ sigDelivered

\* errgroup.WithContext(notifyCtx): the group context is a child of the
\* notify context, and the group cancels it on the first task error.
EgCtxDone == NotifyCtxDone \/ egCancel

\* errgroup.Group.Go: errOnce keeps the first non-nil error only.
EgLastErr(cur, err) == IF err # "nil" THEN err ELSE cur
EgFirstErr(cur, err) == IF cur = "nil" THEN err ELSE cur

\* errgroup.Group.Go: a task returning a non-nil error cancels the group context.
EgNeverCancels(cur, err) == cur
EgCancelOnErr(cur, err) == cur \/ err # "nil"

\* The bookkeeping errgroup.Group.Go does when task t returns err.
EgTaskReturned(t, err) ==
    /\ egErr' = EgFirstErr(egErr, err)
    /\ egCancel' = EgCancelOnErr(egCancel, err)
    /\ reported' = IF err # "nil" THEN Append(reported, <<t, err>>) ELSE reported

\* Lines 53-56: the accept task drops http.ErrServerClosed.
AcceptTaskUnfiltered(err) == err
AcceptTaskResult(err) == IF err # "nil" /\ err # "ErrServerClosed" THEN err ELSE "nil"

ServeInit ==
    /\ pcServe = "call"
    /\ result = "none"
    /\ ctxDone \in BOOLEAN
    /\ ctxDoneAtCall = FALSE
    /\ sigDelivered = FALSE
    /\ bindOK \in BOOLEAN
    /\ egCancel = FALSE
    /\ egErr = "nil"
    /\ reported = <<>>
    /\ acceptPc = "idle"
    /\ acceptErr = "none"
    /\ shutPc = "idle"
    /\ shutErr = "none"
    /\ inShutdown = FALSE
    /\ listener = "none"
    /\ inflight = 0
    /\ everInflight = FALSE
    /\ shutdownCtx = "none"
    /\ shutdownCtxAtCall = "none"

\* Serve, lines 29-64 with a configuration that validates: the server is
\* built, the group and its context are derived, both tasks are started.
Serve ==
    /\ pcServe = "call"
    /\ pcServe' = "wait"
    /\ ctxDoneAtCall' = ctxDone
    /\ acceptPc' = "start"
    /\ shutPc' = "wait"
    /\ UNCHANGED <<result, ctxDone, sigDelivered, bindOK, egCancel, egErr, reported,
                   acceptErr, shutErr, inShutdown, listener, inflight, everInflight,
                   shutdownCtx, shutdownCtxAtCall>>
    /\ UNCHANGED otherThanServe

\* The caller cancels ctx.  shutdownCtx is a child of ctx (line 61), so it
\* is canceled with it.
CallerCancel ==
    /\ pcServe # "done"
    /\ ~ctxDone
    /\ ctxDone' = TRUE
    /\ shutdownCtx' = IF shutdownCtx = "live" THEN "Canceled" ELSE shutdownCtx
    /\ UNCHANGED <<pcServe, result, ctxDoneAtCall, sigDelivered, bindOK, egCancel, egErr,
                   reported, acceptPc, acceptErr, shutPc, shutErr, inShutdown, listener,
                   inflight, everInflight, shutdownCtxAtCall>>
    /\ UNCHANGED otherThanServe

\* SIGINT or SIGTERM is delivered while signal.NotifyContext is registered
\* (between line 49 and the deferred stop).
Signal ==
    /\ pcServe = "wait"
    /\ ~sigDelivered
    /\ sigDelivered' = TRUE
    /\ UNCHANGED <<pcServe, result, ctxDone, ctxDoneAtCall, bindOK, egCancel, egErr,
                   reported, acceptPc, acceptErr, shutPc, shutErr, inShutdown, listener,
                   inflight, everInflight, shutdownCtx, shutdownCtxAtCall>>
    /\ UNCHANGED otherThanServe

\* The accept task returns: open(srv) gave err, the task filters it and the
\* group records what is left.
AcceptReturns(err) ==
    /\ acceptPc' = "done"
    /\ acceptErr' = err
    /\ EgTaskReturned("accept", AcceptTaskResult(err))

\* open -> ListenAndServe: a server that is shutting down does not listen.
OpenCheck ==
    /\ acceptPc = "start"
    /\ IF inShutdown
         THEN AcceptReturns("ErrServerClosed")
         ELSE /\ acceptPc' = "listen"
              /\ UNCHANGED <<acceptErr, egErr, egCancel, reported>>
    /\ UNCHANGED <<pcServe, result, ctxDone, ctxDoneAtCall, sigDelivered, bindOK,
                   shutPc, shutErr, inShutdown, listener, inflight, everInflight,
                   shutdownCtx, shutdownCtxAtCall>>
    /\ UNCHANGED otherThanServe

\* open -> ListenAndServe: net.Listen binds the address or fails.
OpenListen ==
    /\ acceptPc = "listen"
    /\ IF bindOK
         THEN /\ acceptPc' = "track"
              /\ listener' = "bound"
              /\ UNCHANGED <<acceptErr, egErr, egCancel, reported>>
         ELSE /\ AcceptReturns("BindErr")
              /\ UNCHANGED listener
    /\ UNCHANGED <<pcServe, result, ctxDone, ctxDoneAtCall, sigDelivered, bindOK,
                   shutPc, shutErr, inShutdown, inflight, everInflight,
                   shutdownCtx, shutdownCtxAtCall>>
    /\ UNCHANGED otherThanServe

\* open -> Server.Serve: the listener is registered, unless Shutdown has
\* begun, in which case it is closed and ErrServerClosed returned.
OpenTrack ==
    /\ acceptPc = "track"
    /\ IF inShutdown
         THEN /\ listener' = "closed"
              /\ AcceptReturns("ErrServerClosed")
         ELSE /\ listener' = "tracked"
              /\ acceptPc' = "accepting"
              /\ UNCHANGED <<acceptErr, egErr, egCancel, reported>>
    /\ UNCHANGED <<pcServe, result, ctxDone, ctxDoneAtCall, sigDelivered, bindOK,
                   shutPc, shutErr, inShutdown, inflight, everInflight,
                   shutdownCtx, shutdownCtxAtCall>>
    /\ UNCHANGED otherThanServe

\* The accept loop takes a connection, which starts serving a request.
ConnArrive ==
    /\ acceptPc = "accepting"
    /\ listener = "tracked"
    /\ inflight < MaxConns
    /\ inflight' = inflight + 1
    /\ everInflight' = TRUE
    /\ UNCHANGED <<pcServe, result, ctxDone, ctxDoneAtCall, sigDelivered, bindOK,
                   egCancel, egErr, reported, acceptPc, acceptErr, shutPc, shutErr,
                   inShutdown, listener, shutdownCtx, shutdownCtxAtCall>>
    /\ UNCHANGED otherThanServe

\* A connection finishes its request (it becomes idle or closes).
ConnFinish ==
    /\ inflight > 0
    /\ inflight' = inflight - 1
    /\ UNCHANGED <<pcServe, result, ctxDone, ctxDoneAtCall, sigDelivered, bindOK,
                   egCancel, egErr, reported, acceptPc, acceptErr, shutPc, shutErr,
                   inShutdown, listener, everInflight, shutdownCtx, shutdownCtxAtCall>>
    /\ UNCHANGED otherThanServe

\* The accept loop finds its listener closed by Shutdown.
OpenAcceptClosed ==
    /\ acceptPc = "accepting"
    /\ listener = "closed"
    /\ AcceptReturns("ErrServerClosed")
    /\ UNCHANGED <<pcServe, result, ctxDone, ctxDoneAtCall, sigDelivered, bindOK,
                   shutPc, shutErr, inShutdown, listener, inflight, everInflight,
                   shutdownCtx, shutdownCtxAtCall>>
    /\ UNCHANGED otherThanServe

\* Accept fails for a reason of its own (a non-temporary listener error).
\* Server.Serve reports ErrServerClosed instead when Shutdown has begun.
OpenAcceptFail ==
    /\ acceptPc = "accepting"
    /\ listener = "tracked"
    /\ listener' = "closed"
    /\ AcceptReturns(IF inShutdown THEN "ErrServerClosed" ELSE "AcceptErr")
    /\ UNCHANGED <<pcServe, result, ctxDone, ctxDoneAtCall, sigDelivered, bindOK,
                   shutPc, shutErr, inShutdown, inflight, everInflight,
                   shutdownCtx, shutdownCtxAtCall>>
    /\ UNCHANGED otherThanServe

\* Line 60: what releases the shutdown task.
ShutdownUnguarded == TRUE
ShutdownReleased == EgCtxDone

\* Line 61: context.WithTimeout(ctx, cfg.ShutdownTimeout) is a child of the
\* caller's ctx: it is born canceled when ctx is.
ShutdownCtxFrom(parentDone) == IF parentDone THEN "Canceled" ELSE "live"

\* Lines 60-63: the shutdown task wakes, derives the deadline context and
\* calls srv.Shutdown, which first marks the server as shutting down.
ShutdownBegin ==
    /\ shutPc = "wait"
    /\ ShutdownReleased
    /\ shutdownCtx' = ShutdownCtxFrom(ctxDone)
    /\ shutdownCtxAtCall' = shutdownCtx'
    /\ inShutdown' = TRUE
    /\ shutPc' = "closeListeners"
    /\ UNCHANGED <<pcServe, result, ctxDone, ctxDoneAtCall, sigDelivered, bindOK,
                   egCancel, egErr, reported, acceptPc, acceptErr, shutErr, listener,
                   inflight, everInflight>>
    /\ UNCHANGED otherThanServe

\* srv.Shutdown closes the registered listeners.
ShutdownCloseListeners ==
    /\ shutPc = "closeListeners"
    /\ listener' = IF listener = "tracked" THEN "closed" ELSE listener
    /\ shutPc' = "poll"
    /\ UNCHANGED <<pcServe, result, ctxDone, ctxDoneAtCall, sigDelivered, bindOK,
                   egCancel, egErr, reported, acceptPc, acceptErr, shutErr, inShutdown,
                   inflight, everInflight, shutdownCtx, shutdownCtxAtCall>>
    /\ UNCHANGED otherThanServe

\* The grace timer of shutdownCtx fires (cfg.ShutdownTimeout has elapsed).
GraceExpire ==
    /\ shutPc \in {"closeListeners", "poll"}
    /\ shutdownCtx = "live"
    /\ shutdownCtx' = "DeadlineExceeded"
    /\ UNCHANGED <<pcServe, result, ctxDone, ctxDoneAtCall, sigDelivered, bindOK,
                   egCancel, egErr, reported, acceptPc, acceptErr, shutPc, shutErr,
                   inShutdown, listener, inflight, everInflight, shutdownCtxAtCall>>
    /\ UNCHANGED otherThanServe

\* Line 63: the shutdown task returns what srv.Shutdown returned.
ShutdownTaskSwallows(err) == "nil"
ShutdownTaskResult(err) == err

\* srv.Shutdown's wait loop: nil once no connection is active, else the
\* context's error once the context is done, else keep polling.
ShutdownPoll ==
    /\ shutPc = "poll"
    /\ inflight = 0 \/ shutdownCtx # "live"
    /\ shutErr' = IF inflight = 0 THEN "nil" ELSE shutdownCtx
    /\ shutPc' = "done"
    /\ EgTaskReturned("shutdown", ShutdownTaskResult(shutErr'))
    /\ UNCHANGED <<pcServe, result, ctxDone, ctxDoneAtCall, sigDelivered, bindOK,
                   acceptPc, acceptErr, inShutdown, listener, inflight, everInflight,
                   shutdownCtx, shutdownCtxAtCall>>
    /\ UNCHANGED otherThanServe

\* Line 66: eg.Wait returns once both tasks have returned.
WaitForBoth == acceptPc = "done" /\ shutPc = "done"

\* Line 66: eg.Wait returns the recorded error and cancels the group context.
ServeReturn ==
    /\ pcServe = "wait"
    /\ WaitForBoth
    /\ result' = egErr
    /\ pcServe' = "done"
    /\ egCancel' = TRUE
    /\ UNCHANGED <<ctxDone, ctxDoneAtCall, sigDelivered, bindOK, egErr, reported,
                   acceptPc, acceptErr, shutPc, shutErr, inShutdown, listener,
                   inflight, everInflight, shutdownCtx, shutdownCtxAtCall>>
    /\ UNCHANGED otherThanServe

ServeNext ==
    \/ Serve
    \/ CallerCancel
    \/ Signal
    \/ OpenCheck
    \/ OpenListen
    \/ OpenTrack
    \/ ConnArrive
    \/ ConnFinish
    \/ OpenAcceptClosed
    \/ OpenAcceptFail
    \/ ShutdownBegin
    \/ ShutdownCloseListeners
    \/ GraceExpire
    \/ ShutdownPoll
    \/ ServeReturn

(***************************************************************************)
(* Strings are sequences of one-character strings.                         *)
(***************************************************************************)
RECURSIVE TrimLeft(_)
\* strings.TrimLeft(s, "/")
TrimLeft(s) == IF s # <<>> /\ Head(s) = "/" THEN TrimLeft(Tail(s)) ELSE s

RECURSIVE TrimSuffixSlash(_)
\* strings.TrimSuffix(s, "/"): at most one slash goes.
TrimSuffixSlash(s) == IF s # <<>> /\ s[Len(s)] = "/" THEN SubSeq(s, 1, Len(s) - 1) ELSE s

RECURSIVE TrimRight(_)
\* strings.TrimRight(s, "/"): every trailing slash goes.
TrimRight(s) == IF s # <<>> /\ s[Len(s)] = "/" THEN TrimRight(SubSeq(s, 1, Len(s) - 1)) ELSE s

\* strings.Trim(s, "/")
Trim(s) == TrimRight(TrimLeft(s))

\* strings.HasSuffix(s, "/")
HasSuffixSlash(s) == s # <<>> /\ s[Len(s)] = "/"

(***************************************************************************)
(* Go slices of Middleware.                                                *)
(***************************************************************************)
\* The nil slice, the zero value of Router.mws.
NilSlice == [arr |-> 0, len |-> 0, cap |-> 0]

\* The elements a slice shows: the first len elements of its backing array.
View(h, sl) == IF sl.len = 0 THEN <<>> ELSE SubSeq(h[sl.arr], 1, sl.len)

\* runtime.roundupsize for 8-byte elements: the size classes are 8, 16, 24,
\* 32, 48, 64, 80, 96, 112, 128 bytes.
RoundUpCap(c) == IF c <= 4 THEN c ELSE IF c % 2 = 0 THEN c ELSE c + 1

\* runtime.growslice: the capacity of the array append allocates.
GrowCap(oldCap, newLen) ==
    RoundUpCap(IF newLen > 2 * oldCap THEN newLen ELSE 2 * oldCap)

\* make([]Middleware, n, c): a fresh zeroed array.
MakeSlice(h, n, c) ==
    [heap |-> Append(h, [i \in 1..c |-> 0]),
     slice |-> [arr |-> Len(h) + 1, len |-> n, cap |-> c]]

\* copy(dst, src) into the slice dst of heap h.
CopyInto(h, dst, src) ==
    IF dst.len = 0 \/ src = <<>> THEN h
    ELSE [h EXCEPT ![dst.arr] =
            [i \in 1..Len(@) |-> IF i <= dst.len /\ i <= Len(src) THEN src[i] ELSE @[i]]]

\* append(sl, ms...): in place when the capacity allows, else into a grown copy.
GoAppend(h, sl, ms) ==
    LET n == Len(ms)
        newLen == sl.len + n
    IN  IF n = 0 THEN [heap |-> h, slice |-> sl]
        ELSE IF newLen <= sl.cap
          THEN [heap |-> [h EXCEPT ![sl.arr] =
                            [i \in 1..Len(@) |->
                               IF i > sl.len /\ i <= newLen THEN ms[i - sl.len] ELSE @[i]]],
                slice |-> [sl EXCEPT !.len = newLen]]
          ELSE LET c == GrowCap(sl.cap, newLen)
                   old == View(h, sl)
               IN  [heap |-> Append(h, [i \in 1..c |->
                                          IF i <= sl.len THEN old[i]
                                          ELSE IF i <= newLen THEN ms[i - sl.len] ELSE 0]),
                    slice |-> [arr |-> Len(h) + 1, len |-> newLen, cap |-> c]]

(***************************************************************************)
(* The garbage collector: arrays no router refers to are dropped, and the  *)
(* live ones are numbered by the first router that refers to them.         *)
(***************************************************************************)
FirstRef(rs, a) == CHOOSE r \in 1..Len(rs) :
                      /\ rs[r].mws.arr = a
                      /\ \A q \in 1..(r - 1) : rs[q].mws.arr # a

Live(rs) == {rs[r].mws.arr : r \in 1..Len(rs)} \ {0}

NewIndex(rs, a) == Cardinality({b \in Live(rs) : FirstRef(rs, b) <= FirstRef(rs, a)})

CollectedHeap(h, rs) ==
    [k \in 1..Cardinality(Live(rs)) |-> h[CHOOSE a \in Live(rs) : NewIndex(rs, a) = k]]

CollectedRouters(rs) ==
    [r \in 1..Len(rs) |->
        IF rs[r].mws.arr = 0 THEN rs[r]
        ELSE [rs[r] EXCEPT !.mws.arr = NewIndex(rs, rs[r].mws.arr)]]

(***************************************************************************)
(* Router.                                                                 *)
(***************************************************************************)
\* Prefixes handed to Group, patterns and methods handed to Handle.
Prefixes == {<<"v">>, <<"/", "v", "/">>}
Patterns == {<<"/">>, <<"/", "a">>, <<"a", "/">>}
Methods == {"GET"}

\* The middleware list of router r.
Mws(r) == View(heap, routers[r].mws)

\* Middleware values: the k-th middleware handed to router r.
MwId(r, k) == 10 * r + k
MwOwner(m) == m \div 10

\* The n middlewares a call on router r receives, router r having been
\* handed g before.
FreshMws(r, g, n) == [i \in 1..n |-> MwId(r, g + i)]

\* All the middlewares handed out so far.
TotalGiven == LET RECURSIVE Sum(_)
                  Sum(i) == IF i = 0 THEN 0 ELSE given[i] + Sum(i - 1)
              IN  Sum(Len(given))

\* NewRouter, lines 310-315: no prefix, a nil middleware list.
RouterInit ==
    /\ heap = <<>>
    /\ routers = <<[prefix |-> <<>>, mws |-> NilSlice, parent |-> 0]>>
    /\ given = <<0>>
    /\ routes = {}
    /\ served = {}
    /\ trace = <<>>

\* Group, lines 356-361 with the copy left out: append on the parent's slice.
GroupMwsAliased(h, parent, ms) == GoAppend(h, parent, ms)

\* Group, lines 356-361: make with the parent's length and room for the new
\* middlewares, copy the parent's list, append the new ones.
GroupMws(h, parent, ms) ==
    LET made == MakeSlice(h, parent.len, parent.len + Len(ms))
        copied == CopyInto(made.heap, made.slice, View(h, parent))
    IN  GoAppend(copied, made.slice, ms)

\* Group, lines 351-364.
Group(r, prefix, n) ==
    /\ Len(routers) < MaxRouters
    /\ TotalGiven + n <= MaxMws
    /\ LET ro == routers[r]
           child == Len(routers) + 1
           g == GroupMws(heap, ro.mws, FreshMws(child, 0, n))
           rs == Append(routers, [prefix |-> ro.prefix \o <<"/">> \o Trim(prefix),
                                  mws |-> g.slice,
                                  parent |-> r])
       IN  /\ heap' = CollectedHeap(g.heap, rs)
           /\ routers' = CollectedRouters(rs)
    /\ given' = Append(given, n)
    /\ served' = {}
    /\ trace' = <<>>
    /\ UNCHANGED routes
    /\ UNCHANGED otherThanRouter

\* Use, line 367.
Use(r, n) ==
    /\ TotalGiven + n <= MaxMws
    /\ LET a == GoAppend(heap, routers[r].mws, FreshMws(r, given[r], n))
           rs == [routers EXCEPT ![r].mws = a.slice]
       IN  /\ heap' = CollectedHeap(a.heap, rs)
           /\ routers' = CollectedRouters(rs)
    /\ given' = [given EXCEPT ![r] = @ + n]
    /\ served' = {}
    /\ trace' = <<>>
    /\ UNCHANGED routes
    /\ UNCHANGED otherThanRouter

RECURSIVE WrapForward(_, _, _)
\* wrap iterating forward: the last middleware would end up outermost.
WrapForward(ms, i, h) ==
    IF i = 0 THEN h
    ELSE WrapForward(ms, i - 1, <<ms[Len(ms) + 1 - i]>> \o h)

RECURSIVE WrapBackward(_, _, _)
\* wrap, lines 369-376: for mw in slices.Backward(ro.mws) { h = mw(h) }, from
\* index i down.  A handler is the sequence of the middlewares around the
\* route's own handler, outermost first; mw(h) puts mw around h.
WrapBackward(ms, i, h) ==
    IF i = 0 THEN h
    ELSE WrapBackward(ms, i - 1, <<ms[i]>> \o h)

\* wrap, lines 369-376.
wrap(ms) == WrapBackward(ms, Len(ms), <<>>)

\* handle, line 379: the path of the key.
KeyPath(prefix, pattern) == TrimRight(prefix \o <<"/">> \o Trim(pattern))

\* handle, lines 378-380 (Handle and the verb wrappers, lines 321-348).
\* ServeMux.Handle panics on a pattern that is already registered; the
\* model stops short of that call.
handle(r, method, pattern) ==
    /\ Cardinality(routes) < MaxRoutes
    /\ LET path == KeyPath(routers[r].prefix, pattern)
       IN  /\ \A rt \in routes : ~(rt.method = method /\ rt.path = path)
           /\ routes' = routes \cup {[by |-> r, method |-> method, path |-> path,
                                      list |-> Mws(r), h |-> wrap(Mws(r))]}
    /\ served' = {}
    /\ trace' = <<>>
    /\ UNCHANGED <<heap, routers, given>>
    /\ UNCHANGED otherThanRouter

RECURSIVE Run(_)
\* Serving a request with handler h: each middleware does its
\* pre-processing, calls the handler it wraps, then does its post-processing.
Run(h) ==
    IF h = <<>> THEN <<<<"handler", 0>>>>
    ELSE <<<<"pre", Head(h)>>>> \o Run(Tail(h)) \o <<<<"post", Head(h)>>>>

\* A route that wraps its router's list when it is served.
RouteHandlerLate(rt) == wrap(Mws(rt.by))

\* The handler the multiplexer holds for route rt: the value ro.wrap
\* returned inside handle, line 379.
RouteHandler(rt) == rt.h

\* Router.ServeHTTP, line 318: a request that matches route rt.
Request(rt) ==
    /\ served # {rt}
    /\ served' = {rt}
    /\ trace' = Run(RouteHandler(rt))
    /\ UNCHANGED <<heap, routers, given, routes>>
    /\ UNCHANGED otherThanRouter

RouterNext ==
    \/ \E r \in 1..Len(routers), p \in Prefixes, n \in 0..MaxArgs : Group(r, p, n)
    \/ \E r \in 1..Len(routers), n \in 1..MaxArgs : Use(r, n)
    \/ \E r \in 1..Len(routers), m \in Methods, p \in Patterns : handle(r, m, p)
    \/ \E rt \in routes : Request(rt)

(***************************************************************************)
(* TrailingSlashRedirector.                                                *)
(***************************************************************************)
\* net/http.StatusPermanentRedirect
StatusPermanentRedirect == 308

RECURSIVE SeqsUpTo(_, _)
\* The sequences over alphabet of length at most n.
SeqsUpTo(alphabet, n) ==
    IF n = 0 THEN {<<>>}
    ELSE LET shorter == SeqsUpTo(alphabet, n - 1)
         IN  shorter \cup {Append(q, c) : q \in shorter, c \in alphabet}

\* Request paths: they start with a slash.
Paths == {<<"/">> \o q : q \in SeqsUpTo({"/", "a"}, MaxPathLen - 1)}

\* Raw queries.
Queries == {<<>>, <<"q">>}

\* Lines 479-482 with strings.TrimSuffix in place of strings.TrimRight.
RedirectURLOneSlash(path, query) ==
    TrimSuffixSlash(path) \o (IF query # <<>> THEN <<"?">> \o query ELSE <<>>)

\* Lines 479-482: the url handed to http.Redirect.
RedirectURL(path, query) ==
    TrimRight(path) \o (IF query # <<>> THEN <<"?">> \o query ELSE <<>>)

\* The request is still to be served.
RedirectPending ==
    /\ tsrPc = "pending"
    /\ respCT = priorCT
    /\ respStatus = 0
    /\ respURL = <<>>
    /\ respBody = FALSE
    /\ nextCalls = 0

RedirectInit ==
    /\ reqPath \in Paths
    /\ reqQuery \in Queries
    /\ priorCT \in {"unset", "set"}
    /\ RedirectPending

\* The request the other specifications leave unserved.
RedirectIdle ==
    /\ reqPath = <<"/">>
    /\ reqQuery = <<>>
    /\ priorCT = "unset"
    /\ RedirectPending

\* TrailingSlashRedirector, lines 476-488: the handler it returns serves the
\* request.  http.Redirect finds the Content-Type key present (with a nil
\* value), so it sets Location, writes the status and writes no body.  The
\* handler has no other branch: it returns without calling next.
TrailingSlashRedirector ==
    /\ tsrPc = "pending"
    /\ tsrPc' = "served"
    /\ IF reqPath # <<"/">> /\ HasSuffixSlash(reqPath)
         THEN /\ respURL' = RedirectURL(reqPath, reqQuery)
              /\ respCT' = "nil"
              /\ respStatus' = StatusPermanentRedirect
              /\ UNCHANGED <<respBody, nextCalls>>
         ELSE UNCHANGED <<respCT, respStatus, respURL, respBody, nextCalls>>
    /\ UNCHANGED <<reqPath, reqQuery, priorCT>>
    /\ UNCHANGED otherThanRedirect

RedirectNext == TrailingSlashRedirector

(***************************************************************************)
(* ServeConfig and the ServeOptions.  Durations are counted in seconds.    *)
(***************************************************************************)
\* Lines 21-27.
defaultPort == 8080
defaultIdleTimeout == 60
defaultReadTimeout == 5
defaultWriteTimeout == 10
defaultShutdownTimeout == 10

\* The zero value of ServeConfig, lines 70-80.
ZeroConfig ==
    [Host |-> "", Port |-> 0, IdleTimeout |-> 0, ReadTimeout |-> 0, WriteTimeout |-> 0,
     ShutdownTimeout |-> 0, ErrorLog |-> "nil", TLS |-> "nil", tlsErr |-> "nil"]

\* DefaultServeConfig, lines 83-91.
DefaultServeConfig ==
    [ZeroConfig EXCEPT !.Port = defaultPort,
                       !.IdleTimeout = defaultIdleTimeout,
                       !.ReadTimeout = defaultReadTimeout,
                       !.WriteTimeout = defaultWriteTimeout,
                       !.ShutdownTimeout = defaultShutdownTimeout]

\* Override, lines 97-121: six fields are copied when non-zero in other;
\* ErrorLog, TLS and tlsErr are not looked at.
Override(c, other) ==
    [c EXCEPT !.Host = IF other.Host # "" THEN other.Host ELSE @,
              !.Port = IF other.Port # 0 THEN other.Port ELSE @,
              !.IdleTimeout = IF other.IdleTimeout # 0 THEN other.IdleTimeout ELSE @,
              !.ReadTimeout = IF other.ReadTimeout # 0 THEN other.ReadTimeout ELSE @,
              !.WriteTimeout = IF other.WriteTimeout # 0 THEN other.WriteTimeout ELSE @,
              !.ShutdownTimeout = IF other.ShutdownTimeout # 0 THEN other.ShutdownTimeout ELSE @]

\* setDefaultZeroValues with == 0 tests: a negative value would stay.
setDefaultOnlyZeroValues(c) ==
    [c EXCEPT !.Port = IF @ = 0 THEN defaultPort ELSE @,
              !.IdleTimeout = IF @ = 0 THEN defaultIdleTimeout ELSE @,
              !.ReadTimeout = IF @ = 0 THEN defaultReadTimeout ELSE @,
              !.WriteTimeout = IF @ = 0 THEN defaultWriteTimeout ELSE @,
              !.ShutdownTimeout = IF @ = 0 THEN defaultShutdownTimeout ELSE @]

\* setDefaultZeroValues, lines 154-174.
setDefaultZeroValues(c) ==
    [c EXCEPT !.Port = IF @ <= 0 THEN defaultPort ELSE @,
              !.IdleTimeout = IF @ <= 0 THEN defaultIdleTimeout ELSE @,
              !.ReadTimeout = IF @ <= 0 THEN defaultReadTimeout ELSE @,
              !.WriteTimeout = IF @ <= 0 THEN defaultWriteTimeout ELSE @,
              !.ShutdownTimeout = IF @ <= 0 THEN defaultShutdownTimeout ELSE @]

\* Validate, lines 127-151: the checks that follow the backfill.
ValidateErr(c) ==
    IF c.Port <= 0 THEN "port must be greater than 0"
    ELSE IF c.IdleTimeout <= 0 THEN "idle timeout must be greater than 0"
    ELSE IF c.ReadTimeout <= 0 THEN "read timeout must be greater than 0"
    ELSE IF c.WriteTimeout <= 0 THEN "write timeout must be greater than 0"
    ELSE IF c.ShutdownTimeout <= 0 THEN "shutdown timeout must be greater than 0"
    ELSE IF c.tlsErr # "nil" THEN "tls must be configured correctly if provided"
    ELSE "nil"

\* The errors of Validate, lines 127-149.
ConfigErrors ==
    {"port must be greater than 0", "idle timeout must be greater than 0",
     "read timeout must be greater than 0", "write timeout must be greater than 0",
     "shutdown timeout must be greater than 0",
     "tls must be configured correctly if provided"}

\* Validate without the backfill of line 125.
ValidateNoBackfill(c) == [cfg |-> c, err |-> ValidateErr(c)]

\* Validate, lines 124-152: the config it leaves and the error it returns.
Validate(c) ==
    LET d == setDefaultZeroValues(c)
    IN  [cfg |-> d, err |-> ValidateErr(d)]

\* WithTLS, lines 221-246: the option carries the loaded tls.Config, or the
\* error of the load; building it never fails.
WithTLS(filesLoad) ==
    <<"tls", IF filesLoad THEN <<"tlsConfig", "nil">> ELSE <<"nil", "loadErr">>>>

\* tlsOption.apply that stores the value and forgets the error.
tlsApplyDropsErr(c, o) == [c EXCEPT !.TLS = o[2][1]]

\* tlsOption.apply, line 254: cfg.TLS, cfg.tlsErr = o.value, o.err
tlsApply(c, o) == [c EXCEPT !.TLS = o[2][1], !.tlsErr = o[2][2]]

\* The configs handed to WithConfig.
OtherConfigs ==
    {ZeroConfig,
     [ZeroConfig EXCEPT !.Host = "h", !.TLS = "otherTLS", !.ErrorLog = "logger"],
     [ZeroConfig EXCEPT !.IdleTimeout = 7, !.ReadTimeout = -1, !.WriteTimeout = 2,
                        !.ShutdownTimeout = -1]}

\* The options that hold a single value, lines 176-246.
PlainOptions ==
    {<<"host", "h">>, <<"port", -1>>, <<"port", 9>>, <<"idleTimeout", -1>>,
     <<"readTimeout", 3>>, <<"writeTimeout", 0>>, <<"shutdownTimeout", 4>>,
     WithTLS(TRUE), WithTLS(FALSE)}
        \cup {<<"config", o>> : o \in OtherConfigs}

\* WithOptions, line 218: a list of options as one option.
ListOptions == {<<"options", <<WithTLS(FALSE), <<"port", 9>>>>>>}

Options == PlainOptions \cup ListOptions

\* The apply methods of the single-valued options, lines 248-255.
ApplyPlain(c, o) ==
    CASE o[1] = "host" -> [c EXCEPT !.Host = o[2]]
      [] o[1] = "port" -> [c EXCEPT !.Port = o[2]]
      [] o[1] = "idleTimeout" -> [c EXCEPT !.IdleTimeout = o[2]]
      [] o[1] = "readTimeout" -> [c EXCEPT !.ReadTimeout = o[2]]
      [] o[1] = "writeTimeout" -> [c EXCEPT !.WriteTimeout = o[2]]
      [] o[1] = "shutdownTimeout" -> [c EXCEPT !.ShutdownTimeout = o[2]]
      [] o[1] = "tls" -> tlsApply(c, o)
      [] o[1] = "config" -> Override(c, o[2])

RECURSIVE ApplyAll(_, _)
\* configOptions.apply, lines 256-260, and the loop of Serve, lines 32-34.
ApplyAll(c, os) ==
    IF os = <<>> THEN c
    ELSE ApplyAll(IF Head(os)[1] = "options" THEN ApplyAll(c, Head(os)[2])
                  ELSE ApplyPlain(c, Head(os)),
                  Tail(os))

\* One option's apply.
Apply(c, o) == ApplyAll(c, <<o>>)

\* Serve, line 30: var cfg ServeConfig
ConfigInit ==
    /\ cfg = ZeroConfig
    /\ applied = <<>>
    /\ cfgPc = "apply"

\* Serve, lines 32-34: the next option of the list is applied.
ApplyOption(o) ==
    /\ cfgPc = "apply"
    /\ Len(applied) < MaxOpts
    /\ cfg' = Apply(cfg, o)
    /\ applied' = Append(applied, o)
    /\ UNCHANGED cfgPc
    /\ UNCHANGED <<serveVars, otherThanConfig>>

\* Serve, lines 36-38: the config is validated; on an error Serve returns it.
ServeValidate ==
    /\ cfgPc = "apply"
    /\ pcServe = "call"
    /\ LET v == Validate(cfg)
       IN  /\ cfg' = v.cfg
           /\ IF v.err # "nil"
                THEN /\ cfgPc' = "rejected"
                     /\ result' = v.err
                     /\ pcServe' = "done"
                ELSE /\ cfgPc' = "valid"
                     /\ UNCHANGED <<result, pcServe>>
    /\ UNCHANGED <<ctxDone, ctxDoneAtCall, sigDelivered, bindOK, egCancel, egErr, reported,
                   acceptPc, acceptErr, shutPc, shutErr, inShutdown, listener, inflight,
                   everInflight, shutdownCtx, shutdownCtxAtCall>>
    /\ UNCHANGED applied
    /\ UNCHANGED otherThanConfig

\* Serve, lines 40-64, reached with the validated config.
ServeStart ==
    /\ cfgPc = "valid"
    /\ Serve

ConfigNext ==
    \/ \E o \in Options : ApplyOption(o)
    \/ ServeValidate
    \/ ServeStart

\* The config the lifecycle specifications start from: validated defaults.
ConfigIdle ==
    /\ cfg = DefaultServeConfig
    /\ applied = <<>>
    /\ cfgPc = "valid"

(***************************************************************************)
(* Handler.ServeHTTP.                                                      *)
(***************************************************************************)
Sinks == {"w1", "w2"}
Requests == {"r1", "r2"}

\* The chains: every unit returns nil or a unit further down.
Chains ==
    UNION {{u \in [1..n -> 0..n] : \A i \in 1..n : u[i] = 0 \/ u[i] > i} : n \in 1..MaxUnits}

\* The server is about to call ServeHTTP of the first unit.
ChainInit ==
    /\ units \in Chains
    /\ origin \in [w : Sinks, r : Requests]
    /\ pending = <<[h |-> 1, w |-> origin.w, r |-> origin.r]>>
    /\ calls = <<>>

\* ServeHTTP that drops what the unit returned.
ServeHTTPIgnoresNext(f) == [call |-> f, next |-> <<>>]

\* Handler.ServeHTTP, lines 292-296, for the call f = (h, w, r): h(w, r) is
\* invoked; if it returned a handler, next.ServeHTTP(w, r) is called.
ServeHTTPStep(f) ==
    [call |-> f,
     next |-> IF units[f.h] # 0 THEN <<[f EXCEPT !.h = units[f.h]]>> ELSE <<>>]

\* Handler.ServeHTTP, lines 292-296.
HandlerServeHTTP ==
    /\ pending # <<>>
    /\ LET s == ServeHTTPStep(pending[1])
       IN  /\ calls' = Append(calls, s.call)
           /\ pending' = s.next
    /\ UNCHANGED <<units, origin>>
    /\ UNCHANGED otherThanChain

ChainNext == HandlerServeHTTP

\* No chain is being served.
ChainIdle ==
    /\ units = <<0>>
    /\ origin = [w |-> "w1", r |-> "r1"]
    /\ pending = <<>>
    /\ calls = <<>>

(***************************************************************************)
(* Responder.                                                              *)
(***************************************************************************)
\* Values handed to JSON: one that serializes, one that does not.
Froms == {"obj", "chan"}
Codes == {200, 404}
Messages == {"a", "b"}

\* json.Marshal, line 424.
Marshal(from) ==
    IF from = "chan" THEN [data |-> "", err |-> "unsupported type"]
    ELSE [data |-> "{}", err |-> "nil"]

\* Responder.Error, lines 400-402: fmt.Errorf(format, args...) is handed to
\* the err callback once, and the handler the callback returns is returned.
Error(format, arg) ==
    [handler |-> <<"errHandler", <<format, arg>>>>, errs |-> <<<<format, arg>>>>]

\* Responder.Redirect, lines 405-410.
Redirect(code, url) == [handler |-> <<"redirect", code, url>>, errs |-> <<>>]

\* Responder.Text, lines 413-420.
Text(code, message) == [handler |-> <<"text", code, message>>, errs |-> <<>>]

\* Responder.JSON without the error test of lines 425-427.
JSONSkipsErrorTest(code, from) ==
    [handler |-> <<"json", code, Marshal(from).data>>, errs |-> <<>>]

\* Responder.JSON, lines 423-434.
JSON(code, from) ==
    LET m == Marshal(from)
    IN  IF m.err # "nil" THEN Error("encoding JSON: %w", m.err)
        ELSE [handler |-> <<"json", code, m.data>>, errs |-> <<>>]

\* One write to the response: who wrote, what call, with which arguments.
W(by, op, code, text) == [by |-> by, op |-> op, code |-> code, text |-> text]

\* What running handler h writes to the response.
HandlerWrites(h) ==
    CASE h[1] = "json" ->
             <<W("JSON", "Header.Set Content-Type", 0, "application/json"),
               W("JSON", "WriteHeader", h[2], ""),
               W("JSON", "Write", 0, h[3])>>
      [] h[1] = "text" ->
             <<W("Text", "Header.Set Content-Type", 0, "text/plain; charset=utf-8"),
               W("Text", "WriteHeader", h[2], ""),
               W("Text", "Write", 0, h[3])>>
      [] h[1] = "redirect" ->
             <<W("Redirect", "Header.Set Location", 0, h[3]),
               W("Redirect", "WriteHeader", h[2], "")>>
      [] h[1] = "errHandler" ->
             IF cbWrites
               THEN <<W("callback", "WriteHeader", 500, ""),
                      W("callback", "Write", 0, h[2][1])>>
               ELSE <<>>

\* NewResponder, line 388, with an err callback whose handler writes or not.
ResponderInit ==
    /\ rsIn = [op |-> "none", code |-> 0, arg |-> ""]
    /\ rsPc = "idle"
    /\ rsHandler = <<>>
    /\ rsCalls = 0
    /\ errLog = <<>>
    /\ cbWrites \in BOOLEAN
    /\ writes = <<>>

\* A Responder method is called with (code, arg) and returns b.
ResponderCall(op, code, arg, b) ==
    /\ rsCalls < MaxCalls
    /\ rsIn' = [op |-> op, code |-> code, arg |-> arg]
    /\ rsPc' = "built"
    /\ rsHandler' = b.handler
    /\ rsCalls' = rsCalls + 1
    /\ errLog' = errLog \o b.errs
    /\ writes' = <<>>
    /\ UNCHANGED cbWrites
    /\ UNCHANGED otherThanResponder

\* rs.JSON(code, from), lines 423-434.
JSONCall(code, from) ==
    /\ rsPc \in {"idle", "served"}
    /\ ResponderCall("JSON", code, from, JSON(code, from))

\* rs.Text(code, message), lines 413-420.
TextCall(code, message) ==
    /\ rsPc \in {"idle", "served"}
    /\ ResponderCall("Text", code, message, Text(code, message))

\* rs.Redirect(code, url), lines 405-410.
RedirectCall(code, url) ==
    /\ rsPc \in {"idle", "served"}
    /\ ResponderCall("Redirect", code, url, Redirect(code, url))

\* rs.Error(format, args...), lines 400-402.
ErrorCall(format) ==
    /\ rsPc \in {"idle", "served"}
    /\ ResponderCall("Error", 0, format, Error(format, ""))

\* The returned handler serves the request.
HandlerRun ==
    /\ rsPc = "built"
    /\ rsPc' = "served"
    /\ writes' = HandlerWrites(rsHandler)
    /\ UNCHANGED <<rsIn, rsHandler, rsCalls, errLog, cbWrites>>
    /\ UNCHANGED otherThanResponder

ResponderNext ==
    \/ \E c \in Codes, f \in Froms : JSONCall(c, f)
    \/ \E c \in Codes, m \in Messages : TextCall(c, m)
    \/ \E u \in {"/login"} : RedirectCall(StatusPermanentRedirect, u)
    \/ \E f \in {"failed"} : ErrorCall(f)
    \/ HandlerRun

\* No Responder is in use.
ResponderIdle == ResponderInit /\ ~cbWrites

(***************************************************************************)
(* MaxBytesReader.                                                         *)
(***************************************************************************)
\* Wrappers: hlog.Interceptor has Unwrap; "opaque" is a wrapper without it.
LayerKinds == {"Interceptor", "opaque"}
Limits == {0, 1, 1024}

\* The writer at depth k of stack: a wrapper, or below them all the
\* server's own response writer.
KindAt(stack, k) == IF k <= Len(stack) THEN stack[k] ELSE "response"

\* w.(unwrapper), line 465: only the Interceptor has Unwrap (hlog.go 84-87).
HasUnwrap(kind) == kind = "Interceptor"

\* The loop of lines 464-470 left after one iteration.
UnwrapOnce(stack, k) == IF HasUnwrap(KindAt(stack, k)) THEN k + 1 ELSE k

RECURSIVE UnwrapAll(_, _)
\* MaxBytesReader, lines 464-470: from the writer at depth k, unwrap while
\* the writer has Unwrap; Interceptor.Unwrap returns the writer it embeds.
UnwrapAll(stack, k) ==
    IF HasUnwrap(KindAt(stack, k)) THEN UnwrapAll(stack, k + 1) ELSE k

MaxBytesInit ==
    /\ mbrW \in SeqsUpTo(LayerKinds, MaxLayers)
    /\ mbrMax \in Limits
    /\ mbrPc = "call"
    /\ mbrTarget = 0
    /\ connClose = FALSE

\* MaxBytesReader, lines 459-473.
MaxBytesReader ==
    /\ mbrPc = "call"
    /\ mbrTarget' = UnwrapAll(mbrW, 1)
    /\ mbrPc' = "limited"
    /\ UNCHANGED <<mbrW, mbrMax, connClose>>
    /\ UNCHANGED otherThanMaxBytes

\* The body read through the returned reader goes over the limit:
\* http.MaxBytesReader tells its writer, and only the server's own response
\* writer takes that as the order to close the connection.
ReadPastLimit ==
    /\ mbrPc = "limited"
    /\ mbrPc' = "exceeded"
    /\ connClose' = (KindAt(mbrW, mbrTarget) = "response")
    /\ UNCHANGED <<mbrW, mbrMax, mbrTarget>>
    /\ UNCHANGED otherThanMaxBytes

MaxBytesNext == MaxBytesReader \/ ReadPastLimit

\* MaxBytesReader is not in use.
MaxBytesIdle ==
    /\ mbrW = <<>>
    /\ mbrMax = 0
    /\ mbrPc = "limited"
    /\ mbrTarget = 1
    /\ connClose = FALSE

(***************************************************************************)
(* inmem.Repository.                                                       *)
(***************************************************************************)
Ids == {1, 2}
Payloads == {"a", "b"}

\* NewRepository, inmem.go lines 22-26: an empty map; the callers hold values.
RepositoryInit ==
    /\ objs \in [1..MaxObjs -> [id : Ids, x : Payloads]]
    /\ data = <<>>
    /\ memRes = [op |-> "none", val |-> 0, err |-> "nil"]

\* Load, lines 29-45, on pointer p: the error and the callers' values after.
LoadResult(d, o, p) ==
    IF p = 0 THEN [err |-> "loading: value empty", objs |-> o]
    ELSE IF o[p].id \notin DOMAIN d \/ d[o[p].id] = 0
           THEN [err |-> "loading: not found", objs |-> o]
    ELSE [err |-> "nil", objs |-> [o EXCEPT ![p] = o[d[o[p].id]]]]

\* Save without the test of lines 58-60: r.data[key] = val in any case.
SaveOverwrites(d, o, p) ==
    IF p = 0 THEN [err |-> "saving: value empty", data |-> d]
    ELSE [err |-> "nil",
          data |-> [k \in DOMAIN d \cup {o[p].id} |-> IF k = o[p].id THEN p ELSE d[k]]]

\* Save, lines 48-65, on pointer p: the error and the map after.
SaveResult(d, o, p) ==
    IF p = 0 THEN [err |-> "saving: value empty", data |-> d]
    ELSE IF o[p].id \in DOMAIN d THEN [err |-> "saving: already exists", data |-> d]
    ELSE [err |-> "nil",
          data |-> [k \in DOMAIN d \cup {o[p].id} |-> IF k = o[p].id THEN p ELSE d[k]]]

\* Repository.Load, lines 29-45, under the read lock.
Load(p) ==
    /\ LET l == LoadResult(data, objs, p)
       IN  /\ objs' = l.objs
           /\ memRes' = [op |-> "Load", val |-> p, err |-> l.err]
    /\ UNCHANGED data
    /\ UNCHANGED otherThanRepository

\* Repository.Save, lines 48-65, under the write lock.
Save(p) ==
    /\ LET v == SaveResult(data, objs, p)
       IN  /\ data' = v.data
           /\ memRes' = [op |-> "Save", val |-> p, err |-> v.err]
    /\ UNCHANGED objs
    /\ UNCHANGED otherThanRepository

RepositoryNext ==
    \/ \E p \in 0..MaxObjs : Load(p)
    \/ \E p \in 0..MaxObjs : Save(p)

\* No Repository is in use.
RepositoryIdle ==
    /\ objs = [i \in 1..MaxObjs |-> [id |-> 1, x |-> "a"]]
    /\ data = <<>>
    /\ memRes = [op |-> "none", val |-> 0, err |-> "nil"]

(***************************************************************************)
(* inmem.Repository called from several goroutines.  Caller t calls Save   *)
(* or Load once, with the pointer to its own value, objs[t].               *)
(***************************************************************************)
Callers == 1..MaxObjs

\* sync.RWMutex.Lock that would not wait for the holders.
CanLockDespiteHolders(m) == TRUE

\* sync.RWMutex.Lock (inmem.go line 49) returns when no writer and no
\* reader holds the mutex.
CanLock(m) == m.writer = 0 /\ m.readers = {}

\* sync.RWMutex.RLock (line 30) returns when no writer holds the mutex.
CanRLock(m) == m.writer = 0

CallersInit ==
    /\ mu = [writer |-> 0, readers |-> {}]
    /\ callOp \in [Callers -> {"Save", "Load"}]
    /\ callPc = [t \in Callers |-> "start"]
    /\ callLocal = [t \in Callers |-> 0]
    /\ callErr = [t \in Callers |-> "none"]

\* Save, line 49: r.mu.Lock()
SaveLock(t) ==
    /\ callOp[t] = "Save" /\ callPc[t] = "start"
    /\ CanLock(mu)
    /\ mu' = [mu EXCEPT !.writer = t]
    /\ callPc' = [callPc EXCEPT ![t] = "locked"]
    /\ UNCHANGED <<callOp, callLocal, callErr, memVars>>
    /\ UNCHANGED otherThanCallers

\* Save, lines 52-60: the nil test, key := (*val).ID(), the lookup.
SaveCheck(t) ==
    /\ callOp[t] = "Save" /\ callPc[t] = "locked"
    /\ LET key == objs[t].id
           err == IF t = 0 THEN "saving: value empty"
                  ELSE IF key \in DOMAIN data THEN "saving: already exists"
                  ELSE "none"
       IN  /\ callLocal' = [callLocal EXCEPT ![t] = key]
           /\ callErr' = [callErr EXCEPT ![t] = err]
           /\ callPc' = [callPc EXCEPT ![t] = IF err = "none" THEN "store" ELSE "unlock"]
    /\ UNCHANGED <<mu, callOp, memVars>>
    /\ UNCHANGED otherThanCallers

\* Save, lines 62-64: r.data[key] = val; return nil
SaveStore(t) ==
    /\ callOp[t] = "Save" /\ callPc[t] = "store"
    /\ data' = [k \in DOMAIN data \cup {callLocal[t]} |->
                   IF k = callLocal[t] THEN t ELSE data[k]]
    /\ callErr' = [callErr EXCEPT ![t] = "nil"]
    /\ callPc' = [callPc EXCEPT ![t] = "unlock"]
    /\ UNCHANGED <<mu, callOp, callLocal, objs, memRes>>
    /\ UNCHANGED otherThanCallers

\* Save, line 50: the deferred r.mu.Unlock(), and the return.
SaveUnlock(t) ==
    /\ callOp[t] = "Save" /\ callPc[t] = "unlock"
    /\ mu' = [mu EXCEPT !.writer = IF @ = t THEN 0 ELSE @]
    /\ callPc' = [callPc EXCEPT ![t] = "done"]
    /\ UNCHANGED <<callOp, callLocal, callErr, memVars>>
    /\ UNCHANGED otherThanCallers

\* Load, line 30: r.mu.RLock()
LoadRLock(t) ==
    /\ callOp[t] = "Load" /\ callPc[t] = "start"
    /\ CanRLock(mu)
    /\ mu' = [mu EXCEPT !.readers = @ \cup {t}]
    /\ callPc' = [callPc EXCEPT ![t] = "locked"]
    /\ UNCHANGED <<callOp, callLocal, callErr, memVars>>
    /\ UNCHANGED otherThanCallers

\* Load, lines 33-40: the nil test, v, exists := r.data[(*val).ID()].
LoadLookup(t) ==
    /\ callOp[t] = "Load" /\ callPc[t] = "locked"
    /\ LET key == objs[t].id
           found == key \in DOMAIN data /\ data[key] # 0
           err == IF t = 0 THEN "loading: value empty"
                  ELSE IF ~found THEN "loading: not found"
                  ELSE "none"
       IN  /\ callLocal' = [callLocal EXCEPT ![t] = IF found THEN data[key] ELSE 0]
           /\ callErr' = [callErr EXCEPT ![t] = err]
           /\ callPc' = [callPc EXCEPT ![t] = IF err = "none" THEN "copy" ELSE "unlock"]
    /\ UNCHANGED <<mu, callOp, memVars>>
    /\ UNCHANGED otherThanCallers

\* Load, lines 42-44: *val = *v; return nil
LoadCopy(t) ==
    /\ callOp[t] = "Load" /\ callPc[t] = "copy"
    /\ objs' = [objs EXCEPT ![t] = objs[callLocal[t]]]
    /\ callErr' = [callErr EXCEPT ![t] = "nil"]
    /\ callPc' = [callPc EXCEPT ![t] = "unlock"]
    /\ UNCHANGED <<mu, callOp, callLocal, data, memRes>>
    /\ UNCHANGED otherThanCallers

\* Load, line 31: the deferred r.mu.RUnlock(), and the return.
LoadRUnlock(t) ==
    /\ callOp[t] = "Load" /\ callPc[t] = "unlock"
    /\ mu' = [mu EXCEPT !.readers = @ \ {t}]
    /\ callPc' = [callPc EXCEPT ![t] = "done"]
    /\ UNCHANGED <<callOp, callLocal, callErr, memVars>>
    /\ UNCHANGED otherThanCallers

CallersNext ==
    \E t \in Callers :
        \/ SaveLock(t) \/ SaveCheck(t) \/ SaveStore(t) \/ SaveUnlock(t)
        \/ LoadRLock(t) \/ LoadLookup(t) \/ LoadCopy(t) \/ LoadRUnlock(t)

\* No caller is running.
CallersIdle ==
    /\ mu = [writer |-> 0, readers |-> {}]
    /\ callOp = [t \in Callers |-> "Load"]
    /\ callPc = [t \in Callers |-> "done"]
    /\ callLocal = [t \in Callers |-> 0]
    /\ callErr = [t \in Callers |-> "loading: not found"]

HelperIdle == ChainIdle /\ ResponderIdle /\ MaxBytesIdle /\ RepositoryIdle /\ CallersIdle

Init == ServeInit /\ RouterInit /\ RedirectIdle /\ ConfigIdle /\ HelperIdle

Next == ServeNext

Spec == Init /\ [][Next]_vars

\* The Go scheduler runs every runnable goroutine, and a timer that is
\* armed fires: the steps of Serve, of its two tasks and of the grace timer
\* are weakly fair.  The caller, the signal, the connections and listener
\* faults are the environment's and carry no fairness.
FairSpec ==
    /\ Spec
    /\ WF_vars(Serve)
    /\ WF_vars(OpenCheck)
    /\ WF_vars(OpenListen)
    /\ WF_vars(OpenTrack)
    /\ WF_vars(OpenAcceptClosed)
    /\ WF_vars(ShutdownBegin)
    /\ WF_vars(ShutdownCloseListeners)
    /\ WF_vars(GraceExpire)
    /\ WF_vars(ShutdownPoll)
    /\ WF_vars(ServeReturn)

(***************************************************************************)
(* Properties of the Serve lifecycle.                                      *)
(***************************************************************************)
\* A listener fault of the environment: the address cannot be bound, or
\* Accept fails while the server is not shutting down.
ListenerFault == acceptErr \in {"BindErr", "AcceptErr"}

\* C1: Serve called with a context that is already canceled, with no
\* connection ever in flight (and a listener that does not fail on its own),
\* returns nil in every interleaving of the accept task and the shutdown
\* task, the accept task has stopped, and Serve does return.
C1_CanceledCtxReturnsNil ==
    /\ [](pcServe = "done" /\ ctxDoneAtCall /\ ~everInflight /\ ~ListenerFault
            => result = "nil" /\ acceptPc = "done" /\ listener \in {"none", "closed"})
    /\ ((pcServe = "wait" /\ ctxDoneAtCall) ~> pcServe = "done")

\* C1 witness: Shutdown ran before the accept task started listening, the
\* accept task got ErrServerClosed without binding, and Serve returned nil.
C1_Witness ==
    /\ pcServe = "done"
    /\ ctxDoneAtCall
    /\ ~everInflight
    /\ listener = "none"
    /\ acceptErr = "ErrServerClosed"
    /\ result = "nil"

\* C2 (as claimed): whichever trigger cancels the derived context, the
\* deadline context handed to srv.Shutdown is not done when Shutdown is
\* called, and when Serve returns before the grace period has expired (the
\* connections needed no more than the grace period) without a listener
\* fault, it returns nil.
C2_ShutdownCtxNotPreCanceled ==
    /\ shutdownCtxAtCall \in {"none", "live"}
    /\ (pcServe = "done" /\ ~ListenerFault /\ shutdownCtx # "DeadlineExceeded"
          => result = "nil")

\* C3: Serve returns only after both tasks have completed, and its result
\* is the first error a task reported, or nil when none was reported.
C3_WaitsForBothFirstError ==
    pcServe = "done" =>
        /\ acceptPc = "done"
        /\ shutPc = "done"
        /\ result = IF reported = <<>> THEN "nil" ELSE reported[1][2]

\* C3 witness: both tasks reported an error and Serve returned the first.
C3_Witness ==
    /\ pcServe = "done"
    /\ Len(reported) = 2
    /\ reported[1][2] # reported[2][2]
    /\ result = reported[1][2]

\* C4: when the accept task fails with an error other than ErrServerClosed
\* (whether or not a cancellation or signal has happened), the group
\* cancels its context, which releases the shutdown task; Serve eventually
\* returns, and it returns the accept task's error.
C4_AcceptFailureReleasesShutdown ==
    /\ [](ListenerFault => egCancel /\ EgCtxDone /\ (pcServe = "done" => result = acceptErr))
    /\ (ListenerFault ~> pcServe = "done")

\* C4 witness: the bind failed, no cancellation and no signal ever
\* happened, and Serve returned the bind error.
C4_Witness ==
    /\ pcServe = "done"
    /\ acceptErr = "BindErr"
    /\ ~ctxDone
    /\ ~sigDelivered
    /\ shutPc = "done"
    /\ result = "BindErr"

\* C5: srv.Shutdown is never initiated before the derived (group) context
\* is canceled, and when the accept loop ends with ErrServerClosed the
\* accept task reports no failure: ErrServerClosed is never recorded by the
\* group nor returned by Serve.
C5_ShutdownAfterCancelClosedIsBenign ==
    /\ (inShutdown => EgCtxDone)
    /\ (shutPc \in {"closeListeners", "poll", "done"} => EgCtxDone)
    /\ (acceptErr = "ErrServerClosed" => \A i \in 1..Len(reported) : reported[i][1] # "accept")
    /\ egErr # "ErrServerClosed"
    /\ result # "ErrServerClosed"

\* C5 witness: the accept loop was running, Shutdown closed its listener,
\* the loop ended with ErrServerClosed and Serve returned nil.
C5_Witness ==
    /\ pcServe = "done"
    /\ acceptErr = "ErrServerClosed"
    /\ listener = "closed"
    /\ everInflight
    /\ result = "nil"

\* C6: when Shutdown finds connections still in flight at the expiry of the
\* grace period (it returns the deadline error), Serve returns a non-nil
\* error, and the server stays shut down: the listener is closed.
C6_GraceExpiryPropagated ==
    shutErr = "DeadlineExceeded" =>
        /\ inShutdown
        /\ listener = "closed"
        /\ egErr # "nil"
        /\ (pcServe = "done" => result # "nil")

\* C6 witness: a signal (and no caller cancellation) triggered the
\* shutdown, a connection outlived the grace period, and Serve returned the
\* deadline error.
C6_Witness ==
    /\ pcServe = "done"
    /\ sigDelivered
    /\ ~ctxDone
    /\ inflight > 0
    /\ shutErr = "DeadlineExceeded"
    /\ result = "DeadlineExceeded"

\* The router tree alone.
ServeIdle == ServeInit /\ ~ctxDone /\ bindOK

RouterSpecInit == ServeIdle /\ RouterInit /\ RedirectIdle /\ ConfigIdle /\ HelperIdle

RouterSpec == RouterSpecInit /\ [][RouterNext]_vars

\* One request through TrailingSlashRedirector alone.
RedirectSpecInit == ServeIdle /\ RouterInit /\ RedirectInit /\ ConfigIdle /\ HelperIdle

RedirectSpec == RedirectSpecInit /\ [][RedirectNext]_vars

\* The options of one call of Serve, up to its start or its refusal.
ConfigSpecInit == ServeIdle /\ RouterInit /\ RedirectIdle /\ ConfigInit /\ HelperIdle

ConfigSpec == ConfigSpecInit /\ [][ConfigNext]_vars

\* Everything else at rest.
CoreIdle == ServeIdle /\ RouterInit /\ RedirectIdle /\ ConfigIdle

\* One chain of Handlers served to its end; the call in progress goes on.
ChainSpecInit == CoreIdle /\ ChainInit /\ ResponderIdle /\ MaxBytesIdle /\ RepositoryIdle /\ CallersIdle

ChainSpec == ChainSpecInit /\ [][ChainNext]_vars /\ WF_vars(ChainNext)

\* Calls of the Responder's methods, each returned handler served once.
ResponderSpecInit == CoreIdle /\ ChainIdle /\ ResponderInit /\ MaxBytesIdle /\ RepositoryIdle /\ CallersIdle

ResponderSpec == ResponderSpecInit /\ [][ResponderNext]_vars

\* One call of MaxBytesReader and a body read through the result.
MaxBytesSpecInit == CoreIdle /\ ChainIdle /\ ResponderIdle /\ MaxBytesInit /\ RepositoryIdle /\ CallersIdle

MaxBytesSpec == MaxBytesSpecInit /\ [][MaxBytesNext]_vars

\* Calls of Save and Load on one Repository, one at a time.
RepositorySpecInit ==
    CoreIdle /\ ChainIdle /\ ResponderIdle /\ MaxBytesIdle /\ RepositoryInit /\ CallersIdle

RepositorySpec == RepositorySpecInit /\ [][RepositoryNext]_vars

\* One Repository, every caller calling Save or Load once, at the same time.
CallersSpecInit ==
    CoreIdle /\ ChainIdle /\ ResponderIdle /\ MaxBytesIdle /\ RepositoryInit /\ CallersInit

CallersSpec == CallersSpecInit /\ [][CallersNext]_vars

(***************************************************************************)
(* Properties of the Router.                                               *)
(***************************************************************************)
\* C7: a request to a route registered on a router whose middleware list
\* was m1..mn (its own, added with Use, after those inherited through Group)
\* observes pre(m1), ..., pre(mn), the handler, post(mn), ..., post(m1): the
\* first-added middleware is outermost.
C7_OnionOrder ==
    \A rt \in served :
        LET n == Len(rt.list)
        IN  /\ Len(trace) = 2 * n + 1
            /\ trace[n + 1] = <<"handler", 0>>
            /\ \A i \in 1..n : /\ trace[i] = <<"pre", rt.list[i]>>
                               /\ trace[2 * n + 2 - i] = <<"post", rt.list[i]>>

\* C7 witness: a request on a route of a child router whose list holds a
\* middleware inherited from the root and, after it, one of its own.
C7_Witness ==
    \E rt \in served :
        /\ rt.by # 1
        /\ Len(rt.list) >= 2
        /\ MwOwner(rt.list[1]) = 1
        /\ MwOwner(rt.list[2]) = rt.by
        /\ trace[1] = <<"pre", rt.list[1]>>
        /\ trace[2] = <<"pre", rt.list[2]>>

\* The middleware list of router r after the step.
MwsNext(r) == View(heap', routers'[r].mws)

RECURSIVE IsAncestorOrSelf(_, _)
\* Router a is router r or one of the routers r descends from.
IsAncestorOrSelf(a, r) ==
    IF r = 0 THEN FALSE
    ELSE IF a = r THEN TRUE
    ELSE IsAncestorOrSelf(a, routers[r].parent)

\* The step hands middleware to the existing router r (a Use on r).
Handed(r) == given'[r] # given[r]

\* The step appends to a child: Group creates one with its middleware
\* arguments, or Use is called on a router that has a parent.
ChildAppend ==
    \/ Len(routers') > Len(routers)
    \/ \E r \in 1..Len(routers) : Handed(r) /\ routers[r].parent # 0

\* A step that appends to a child leaves the list of every other router
\* (the parent and the siblings among them) as it was.
ChildAppendFrame ==
    ChildAppend =>
        \A o \in 1..Len(routers) : ~Handed(o) => MwsNext(o) = Mws(o)

\* C8: appending middleware to a child, by Group's arguments when it is
\* created or by a later Use on it, changes the list of no other router
\* (parent and siblings included), and the handler of every registered
\* route wraps only middleware that was handed to the registering router or
\* to a router it descends from, never a child's.
C8_ChildAppendFrame ==
    /\ [][ChildAppendFrame]_vars
    /\ [](\A rt \in routes : \A i \in 1..Len(rt.h) :
              IsAncestorOrSelf(MwOwner(rt.h[i]), rt.by))

\* C8 witness: the root has a child that was handed more middleware than
\* one Group call takes (so Use was called on it) and a sibling of that
\* child, and a route is registered on the root with the root's list.
C8_Witness ==
    /\ Len(routers) = 3
    /\ routers[2].parent = 1
    /\ routers[3].parent = 1
    /\ given[1] >= 1
    /\ given[2] > MaxArgs
    /\ \E rt \in routes : rt.by = 1 /\ rt.list = Mws(1) /\ rt.h = rt.list

(***************************************************************************)
(* Properties of TrailingSlashRedirector.                                  *)
(***************************************************************************)
\* The middleware redirects: the path is not the root and ends in a slash.
Redirects == reqPath # <<"/">> /\ HasSuffixSlash(reqPath)

\* The raw query as it follows a path in a url.
QuerySuffix == IF reqQuery # <<>> THEN <<"?">> \o reqQuery ELSE <<>>

\* C9 (as claimed): a request the middleware does not redirect is passed
\* through: next is invoked exactly once, and the middleware itself writes
\* no status, no body and leaves the headers alone.
C9_PassThrough ==
    (tsrPc = "served" /\ ~Redirects) =>
        /\ nextCalls = 1
        /\ respStatus = 0
        /\ respBody = FALSE
        /\ respCT = priorCT

\* C10 (as claimed): a request whose path is not the root and ends in a
\* slash is answered with 308 and the path less its last character, then
\* "?" and the raw query when there is one, the Content-Type cleared and
\* next not invoked; the root path is never redirected.
C10_RedirectDropsOneSlash ==
    tsrPc = "served" =>
        /\ Redirects =>
              /\ respStatus = StatusPermanentRedirect
              /\ respURL = SubSeq(reqPath, 1, Len(reqPath) - 1) \o QuerySuffix
              /\ respCT = "nil"
              /\ nextCalls = 0
        /\ reqPath = <<"/">> => respStatus = 0

\* C10 (amended): such a request is answered with 308 and a url made of a
\* prefix of the path that does not end in a slash and is followed in the
\* path by slashes only (every trailing slash is removed), then "?" and the
\* raw query when there is one, the Content-Type cleared, no body written
\* and next not invoked; the root path is never redirected.
C10_RedirectDropsAllSlashes ==
    tsrPc = "served" =>
        /\ Redirects =>
              /\ respStatus = StatusPermanentRedirect
              /\ \E k \in 0..(Len(reqPath) - 1) :
                    /\ respURL = SubSeq(reqPath, 1, k) \o QuerySuffix
                    /\ k > 0 => reqPath[k] # "/"
                    /\ \A i \in (k + 1)..Len(reqPath) : reqPath[i] = "/"
              /\ respCT = "nil"
              /\ respBody = FALSE
              /\ nextCalls = 0
        /\ reqPath = <<"/">> => respStatus = 0 /\ respURL = <<>>

\* C10 witness: a path with two trailing slashes and a query, set
\* Content-Type, redirected to the path without both slashes.
C10_Witness ==
    /\ tsrPc = "served"
    /\ reqPath = <<"/", "a", "/", "/">>
    /\ reqQuery = <<"q">>
    /\ priorCT = "set"
    /\ respStatus = StatusPermanentRedirect
    /\ respURL = <<"/", "a", "?", "q">>
    /\ respCT = "nil"

\* A registration key path as the spec describes it: it starts with a
\* slash, holds no two slashes in a row, and ends with a slash only when it
\* is the root path "/".
CleanPath(p) ==
    /\ p # <<>>
    /\ p[1] = "/"
    /\ \A i \in 1..(Len(p) - 1) : ~(p[i] = "/" /\ p[i + 1] = "/")
    /\ p[Len(p)] = "/" => p = <<"/">>

\* C11: every route registered on a router reached by any chain of Group
\* calls has a key "METHOD path" whose path starts with a slash, has no
\* redundant slash and no trailing slash unless it is the root, where it is
\* exactly "/"; the pattern "/" on the root router gives "METHOD /".
C11_KeyPathClean == \A rt \in routes : CleanPath(rt.path)

\* The step is a Use on the existing router r.
UseStep(r) == Len(routers') = Len(routers) /\ Handed(r)

\* A Use on router r changes no registered route and no other router's list.
UseFrame ==
    \A r \in 1..Len(routers) :
        UseStep(r) =>
            /\ routes' = routes
            /\ \A q \in 1..Len(routers) : q # r => MwsNext(q) = Mws(q)

\* C19: the middleware stack of a route is fixed when it is registered: a
\* served request runs exactly the middlewares the registering router's
\* list held at registration, whatever Use added since to that router or to
\* a parent; and Use on a router changes no registered route and no other
\* router's list (so none of an existing child).
C19_StackFixedAtRegistration ==
    [][/\ UseFrame
       /\ \A rt \in served' : trace' = Run(wrap(rt.list))]_vars

\* A route of a child router was served after Use had added middleware to
\* the child and to its parent: both lists hold middleware the route lacks.
C19_Witness ==
    \E rt \in served :
        /\ routers[rt.by].parent # 0
        /\ \E i \in 1..Len(Mws(rt.by)) :
               /\ MwOwner(Mws(rt.by)[i]) = rt.by
               /\ \A j \in 1..Len(rt.list) : rt.list[j] # Mws(rt.by)[i]
        /\ \E i \in 1..Len(Mws(routers[rt.by].parent)) :
               \A j \in 1..Len(rt.list) : rt.list[j] # Mws(routers[rt.by].parent)[i]
        /\ trace = Run(wrap(rt.list))

(***************************************************************************)
(* Properties of ServeConfig and the options.                              *)
(***************************************************************************)
RECURSIVE Flat(_)
\* The single-valued options of a list, nested lists opened, in order.
Flat(os) ==
    IF os = <<>> THEN <<>>
    ELSE (IF Head(os)[1] = "options" THEN Flat(Head(os)[2]) ELSE <<Head(os)>>)
             \o Flat(Tail(os))

\* The WithTLS options among the applied ones, in order.
TLSApplied == SelectSeq(Flat(applied), LAMBDA o : o[1] = "tls")

\* Serve has returned a configuration error without starting anything.
RefusedUnstarted ==
    /\ cfgPc = "rejected"
    /\ pcServe = "done"
    /\ result \in ConfigErrors
    /\ acceptPc = "idle" /\ shutPc = "idle"
    /\ listener = "none"

\* C12 as stated: once Serve has validated a list of options that holds a
\* WithTLS option whose files failed to load, Serve has returned a
\* configuration error with the listener and both tasks unstarted, whatever
\* comes before or after that option.
C12_FailedTLSAlwaysRefused ==
    (cfgPc # "apply" /\ \E i \in 1..Len(TLSApplied) : TLSApplied[i] = WithTLS(FALSE))
        => RefusedUnstarted

\* C12, amended: building and applying options reports nothing (Serve has no
\* result while the options are applied); once Serve has validated a list
\* whose last WithTLS option failed to load, Serve has returned the TLS
\* configuration error with the listener and both tasks unstarted, whatever
\* other options come before or after.
C12_LastTLSFailedRefused ==
    /\ cfgPc = "apply" => result = "none"
    /\ (/\ cfgPc # "apply"
        /\ TLSApplied # <<>>
        /\ TLSApplied[Len(TLSApplied)] = WithTLS(FALSE))
           => /\ RefusedUnstarted
              /\ result = "tls must be configured correctly if provided"

\* A failed WithTLS with one option before it and one after it was refused.
C12_Witness ==
    /\ RefusedUnstarted
    /\ Len(applied) = 3
    /\ applied[2] = WithTLS(FALSE)
    /\ applied[1][1] # "tls" /\ applied[3][1] # "tls"

\* The last step applied WithConfig(other).
OverrideStep(other) == applied' = Append(applied, <<"config", other>>)

\* C13: Override(other) sets every field of the receiver that is non-zero in
\* other (host, port, the four durations, the TLS material) to other's value
\* and keeps every field that is zero in other.
C13_OverrideEveryNonZeroField ==
    [][\A other \in OtherConfigs :
          OverrideStep(other) =>
              /\ cfg'.Host = IF other.Host # "" THEN other.Host ELSE cfg.Host
              /\ cfg'.Port = IF other.Port # 0 THEN other.Port ELSE cfg.Port
              /\ cfg'.IdleTimeout =
                     IF other.IdleTimeout # 0 THEN other.IdleTimeout ELSE cfg.IdleTimeout
              /\ cfg'.ReadTimeout =
                     IF other.ReadTimeout # 0 THEN other.ReadTimeout ELSE cfg.ReadTimeout
              /\ cfg'.WriteTimeout =
                     IF other.WriteTimeout # 0 THEN other.WriteTimeout ELSE cfg.WriteTimeout
              /\ cfg'.ShutdownTimeout =
                     IF other.ShutdownTimeout # 0 THEN other.ShutdownTimeout
                     ELSE cfg.ShutdownTimeout
              /\ cfg'.TLS = IF other.TLS # "nil" THEN other.TLS ELSE cfg.TLS]_vars

\* Validate has just returned.
ValidateStep == cfgPc = "apply" /\ cfgPc' # "apply"

\* C14: Validate replaces every non-positive port or duration by its default
\* (8080, 1m, 5s, 10s, 10s), keeps every positive one and every other field,
\* and on the zero config it succeeds.
C14_ValidateBackfillsDefaults ==
    [][ValidateStep =>
          /\ cfg'.Port = IF cfg.Port <= 0 THEN 8080 ELSE cfg.Port
          /\ cfg'.IdleTimeout = IF cfg.IdleTimeout <= 0 THEN 60 ELSE cfg.IdleTimeout
          /\ cfg'.ReadTimeout = IF cfg.ReadTimeout <= 0 THEN 5 ELSE cfg.ReadTimeout
          /\ cfg'.WriteTimeout = IF cfg.WriteTimeout <= 0 THEN 10 ELSE cfg.WriteTimeout
          /\ cfg'.ShutdownTimeout =
                 IF cfg.ShutdownTimeout <= 0 THEN 10 ELSE cfg.ShutdownTimeout
          /\ cfg'.Host = cfg.Host /\ cfg'.TLS = cfg.TLS /\ cfg'.tlsErr = cfg.tlsErr
          /\ cfg = ZeroConfig => cfgPc' = "valid"]_vars

\* Validate ran on a config with a positive port, a negative idle timeout
\* and a zero write timeout.
C14_Witness ==
    /\ cfgPc # "apply"
    /\ applied = <<<<"port", 9>>, <<"idleTimeout", -1>>, <<"writeTimeout", 0>>>>
    /\ cfg.Port = 9 /\ cfg.IdleTimeout = 60 /\ cfg.WriteTimeout = 10

\* C20: Validate (and with it Serve) reports a configuration error exactly
\* when a deferred TLS error is recorded on the config, and the error is
\* the TLS one: no port or timeout value makes it fail.
C20_ErrorIffDeferredTLSError ==
    /\ cfgPc = "rejected" =>
           /\ cfg.tlsErr # "nil"
           /\ result = "tls must be configured correctly if provided"
    /\ cfgPc = "valid" => cfg.tlsErr = "nil" /\ result \notin ConfigErrors

\* A negative port and a negative timeout were set through the options and
\* Validate accepted the config.
C20_Witness ==
    /\ cfgPc = "valid"
    /\ applied = <<<<"port", -1>>, <<"idleTimeout", -1>>>>
    /\ cfg.Port = 8080

(***************************************************************************)
(* Properties of Handler.ServeHTTP and the Responder.                      *)
(***************************************************************************)
\* The chain u1..un: each unit returns the next one, the last returns nil.
Linear == \A i \in 1..Len(units) : units[i] = IF i < Len(units) THEN i + 1 ELSE 0

\* C16: on a chain u1..un where each unit returns the next and the last
\* returns nil, ServeHTTP invokes the units once each, in order, with the
\* sink and the request of the outermost call; on any chain nothing is
\* invoked after a unit that returned nil; and the calls come to an end.
C16_ChainRunsInOrderOnce ==
    /\ [](Linear =>
            /\ Len(calls) <= Len(units)
            /\ \A k \in 1..Len(calls) :
                   calls[k] = [h |-> k, w |-> origin.w, r |-> origin.r]
            /\ pending = <<>> => Len(calls) = Len(units))
    /\ [](\A k \in 1..(Len(calls) - 1) : units[calls[k].h] # 0)
    /\ <>(pending = <<>>)

\* A chain of three units was served to its end.
C16_Witness ==
    /\ Linear
    /\ Len(units) = 3
    /\ pending = <<>>
    /\ Len(calls) = 3

\* JSON was last called with a value that does not serialize.
JSONFailed == rsIn.op = "JSON" /\ Marshal(rsIn.arg).err # "nil"

\* C15: a JSON call whose value fails to serialize invokes the err callback
\* exactly once and returns the handler the callback returned; nothing is
\* written by JSON itself (no Content-Type, no status, no body), neither by
\* the call nor when the returned handler runs.
C15_JSONFailureOnlyCallsBack ==
    [][JSONFailed' =>
          /\ \A i \in 1..Len(writes') : writes'[i].by # "JSON"
          /\ rsCalls' # rsCalls =>
                 /\ Len(errLog') = Len(errLog) + 1
                 /\ rsHandler' = <<"errHandler", errLog'[Len(errLog')]>>
                 /\ errLog'[Len(errLog')] = <<"encoding JSON: %w", Marshal(rsIn'.arg).err>>
                 /\ writes' = <<>>]_vars

\* The handler returned for a failed JSON call ran, and it was the
\* callback's handler that wrote.
C15_Witness ==
    /\ JSONFailed
    /\ rsPc = "served"
    /\ Len(errLog) = 1
    /\ writes # <<>>
    /\ \A i \in 1..Len(writes) : writes[i].by = "callback"

(***************************************************************************)
(* Properties of MaxBytesReader and of the Repository.                     *)
(***************************************************************************)
\* C17: MaxBytesReader hands http.MaxBytesReader the first writer of the
\* unwrap chain that has no Unwrap, never a wrapper above it; when every
\* wrapper has Unwrap, that is the server's own response writer, whatever
\* the number of wrappers.
C17_LimitOnInnermostWriter ==
    mbrPc # "call" =>
        /\ mbrTarget \in 1..(Len(mbrW) + 1)
        /\ ~HasUnwrap(KindAt(mbrW, mbrTarget))
        /\ \A k \in 1..(mbrTarget - 1) : HasUnwrap(KindAt(mbrW, k))
        /\ (\A k \in 1..Len(mbrW) : mbrW[k] = "Interceptor") =>
               /\ mbrTarget = Len(mbrW) + 1
               /\ KindAt(mbrW, mbrTarget) = "response"
               /\ mbrPc = "exceeded" => connClose

\* A writer wrapped in three Interceptors: the limit went to the response
\* writer below them and the over-long body closed the connection.
C17_Witness ==
    /\ mbrPc = "exceeded"
    /\ mbrW = <<"Interceptor", "Interceptor", "Interceptor">>
    /\ mbrTarget = 4
    /\ connClose

\* The error a call of op on pointer p must return in the current state.
ExpectedErr(op, p) ==
    IF p = 0 THEN (IF op = "Load" THEN "loading: value empty" ELSE "saving: value empty")
    ELSE IF op = "Load" /\ objs[p].id \notin DOMAIN data THEN "loading: not found"
    ELSE IF op = "Save" /\ objs[p].id \in DOMAIN data THEN "saving: already exists"
    ELSE "nil"

\* C18: Save and Load fail on a nil pointer ("value empty"), Load fails on
\* an identity that is not stored ("not found"), Save fails on an identity
\* that is stored ("already exists"), and they fail in no other case; a
\* failing call leaves the map as it was; a successful Save stores the
\* value under its identity, a stored value is never changed or replaced,
\* and a Load of a stored identity copies the stored value to the caller.
C18_SaveLoadContract ==
    [][/\ memRes'.err = ExpectedErr(memRes'.op, memRes'.val)
       /\ memRes'.err # "nil" => data' = data /\ objs' = objs
       /\ \A k \in DOMAIN data :
              /\ k \in DOMAIN data'
              /\ data'[k] = data[k]
              /\ objs'[data[k]] = objs[data[k]]
              /\ objs[data[k]].id = k
       /\ (memRes'.op = "Save" /\ memRes'.err = "nil") =>
              /\ data'[objs[memRes'.val].id] = memRes'.val
              /\ DOMAIN data' = DOMAIN data \cup {objs[memRes'.val].id}
       /\ (memRes'.op = "Load" /\ memRes'.err = "nil") =>
              objs'[memRes'.val] = objs[data[objs[memRes'.val].id]]]_vars

\* A Load into a value other than the stored one succeeded and the caller's
\* value now equals the stored one, while another identity is still absent.
C18_Witness ==
    /\ memRes.op = "Load" /\ memRes.err = "nil"
    /\ data[objs[memRes.val].id] # memRes.val
    /\ objs[memRes.val] = objs[data[objs[memRes.val].id]]
    /\ DOMAIN data # Ids

(***************************************************************************)
(* Properties of the Repository under concurrent callers.                  *)
(***************************************************************************)
\* The callers that Save a value of identity k.
Savers(k) == {t \in Callers : callOp[t] = "Save" /\ objs[t].id = k}

\* The callers whose Save of identity k has returned nil.
Won(k) == {t \in Savers(k) : callPc[t] = "done" /\ callErr[t] = "nil"}

\* C21: of the callers that Save values of one identity at the same time,
\* at most one succeeds, every other one fails with "already exists", and
\* once all have returned exactly one has succeeded; the stored entry is the
\* successful caller's value; a Load that runs meanwhile returns "not found"
\* or yields exactly that value.
C21_OneSaveWins ==
    /\ \A k \in Ids :
           /\ Cardinality(Won(k)) <= 1
           /\ \A t \in Savers(k) :
                  callPc[t] = "done" => callErr[t] \in {"nil", "saving: already exists"}
           /\ (Savers(k) # {} /\ \A t \in Savers(k) : callPc[t] = "done")
                  => Cardinality(Won(k)) = 1
           /\ \A t \in Won(k) : k \in DOMAIN data /\ data[k] = t
           /\ k \in DOMAIN data => data[k] \in Savers(k) /\ callErr[data[k]] = "nil"
    /\ \A t \in Callers :
           (callOp[t] = "Load" /\ callPc[t] = "done") =>
               \/ callErr[t] = "loading: not found"
               \/ /\ callErr[t] = "nil"
                  /\ objs[t].id \in DOMAIN data
                  /\ callErr[data[objs[t].id]] = "nil"
                  /\ objs[t] = objs[data[objs[t].id]]

\* Two callers saved values of one identity with different contents: one
\* won, the other got "already exists", and a third caller's Load returned
\* the winner's value.
C21_Witness ==
    \E a, b, l \in Callers :
        /\ a \in Won(objs[a].id)
        /\ b \in Savers(objs[a].id) /\ b # a
        /\ objs[b].x # objs[a].x
        /\ callPc[b] = "done" /\ callErr[b] = "saving: already exists"
        /\ callOp[l] = "Load" /\ callPc[l] = "done" /\ callErr[l] = "nil"
        /\ objs[l] = objs[a]

TypeOK ==
    /\ pcServe \in {"call", "wait", "done"}
    /\ result \in Errors \cup ConfigErrors \cup {"none"}
    /\ cfgPc \in {"apply", "valid", "rejected"}
    /\ Len(applied) <= MaxOpts
    /\ egErr \in Errors
    /\ inflight \in 0..MaxConns
    /\ listener \in {"none", "bound", "tracked", "closed"}
    /\ shutdownCtx \in {"none", "live", "Canceled", "DeadlineExceeded"}
====
